---- MODULE Spec2Model ----
(***************************************************************************)
(* Model of tdl-wrapper: the manifest reconciler (src/src/core.py), the   *)
(* supervised download (TDLWrapper.download_from_export) and the          *)
(* scheduler's jobs and overlap guard (src/src/scheduler.py).             *)
(*                                                                         *)
(* File names are sequences of one-character strings, so that the         *)
(* string operations of the code (rsplit, split, int, endswith, suffix)   *)
(* are computed and not assumed.                                           *)
(***************************************************************************)
EXTENDS Integers, Sequences, FiniteSets, TLC

(***************************************************************************)
(* Bounds                                                                  *)
(***************************************************************************)
\* longest manifest drawn for the reconciler specifications
MaxManifestLen == 2
\* most files initially present in a destination of the reconciler specifications
MaxInitFiles == 2
\* most files a destination of the reconciler specifications grows to
MaxDestFiles == 3

\* most ExportRun rows
MaxExports == 2
\* most DownloadRun rows
MaxDownloads == 2
\* most JobLog rows
MaxJobLogs == 2
\* last value of the clock
MaxTime == 2

(***************************************************************************)
(* Configuration of the model                                              *)
(***************************************************************************)
\* downloads.timeout_idle_seconds and downloads.timeout_total_seconds as
\* configured, in seconds
max_idle == 1
max_total == 2

\* database ids of the tracked sources
Chats == {1, 2}
JobTypes == {"sync", "download"}
\* the cron batch thread, the threads of manual triggers, a command-line caller
ManualThreads == {"m1"}
WebThreads == {"web"}
Threads == {"cron", "cli"} \cup ManualThreads \cup WebThreads

(***************************************************************************)
(* Strings                                                                 *)
(***************************************************************************)
IsDigit(c) == c \in {"0", "1", "2", "3", "4", "5", "6", "7", "8", "9"}

DigitVal(c) ==
  CASE c = "0" -> 0 [] c = "1" -> 1 [] c = "2" -> 2 [] c = "3" -> 3
    [] c = "4" -> 4 [] c = "5" -> 5 [] c = "6" -> 6 [] c = "7" -> 7
    [] c = "8" -> 8 [] c = "9" -> 9

DigitChar(d) == <<"0", "1", "2", "3", "4", "5", "6", "7", "8", "9">>[d + 1]

\* str.rfind(c) + 1: the last position of c in s, 0 when absent
LastIndexOf(s, c) ==
  LET I == {i \in 1..Len(s) : s[i] = c}
  IN IF I = {} THEN 0 ELSE CHOOSE i \in I : \A j \in I : j <= i

\* str.find(c) + 1: the first position of c in s, 0 when absent
FirstIndexOf(s, c) ==
  LET I == {i \in 1..Len(s) : s[i] = c}
  IN IF I = {} THEN 0 ELSE CHOOSE i \in I : \A j \in I : i <= j

\* filename.rsplit('.', 1)[0]
RSplitStem(name) ==
  LET i == LastIndexOf(name, ".")
  IN IF i = 0 THEN name ELSE SubSeq(name, 1, i - 1)

\* the stem with a collision suffix dropped: stem.split('_')[0] when '_' in stem
IdStem(name) ==
  LET st == RSplitStem(name)
      j  == FirstIndexOf(st, "_")
  IN IF j = 0 THEN st ELSE SubSeq(st, 1, j - 1)

\* int(s) succeeds (no ValueError): a non-empty run of digits
IsIntLiteral(s) == Len(s) > 0 /\ \A i \in 1..Len(s) : IsDigit(s[i])

RECURSIVE ParseInt(_)
\* int(s) for a run of digits
ParseInt(s) ==
  IF Len(s) = 0 THEN 0
  ELSE 10 * ParseInt(SubSeq(s, 1, Len(s) - 1)) + DigitVal(s[Len(s)])

RECURSIVE IntToStr(_)
\* str(n) for n >= 0
IntToStr(n) ==
  IF n < 10 THEN <<DigitChar(n)>>
  ELSE IntToStr(n \div 10) \o <<DigitChar(n % 10)>>

\* s.endswith(t)
EndsWith(s, t) ==
  /\ Len(t) <= Len(s)
  /\ SubSeq(s, Len(s) - Len(t) + 1, Len(s)) = t

\* pathlib's Path(name).suffix
PathSuffix(name) ==
  LET i == LastIndexOf(name, ".")
  IN IF i > 1 /\ i < Len(name) THEN SubSeq(name, i, Len(name)) ELSE <<>>

(***************************************************************************)
(* Manifests.  A message record has id (0: no id), date (0: no date) and  *)
(* file (<<>>: no file reference, else the original file name).           *)
(***************************************************************************)
NoFile == <<>>

Msg(i, d, f) == [id |-> i, date |-> d, file |-> f]

NameA == <<"a", ".", "j">>
NameB == <<"b", ".", "j">>
NameC == <<"c", ".", "j">>

\* the messages a source can hold: three with a file, one text-only
M1 == Msg(1, 1, NameA)
M2 == Msg(2, 2, NameB)
M3 == Msg(3, 3, NameC)
MText == Msg(4, 2, NoFile)
\* a message whose attachment was sent under the name 1.j
MNum == Msg(5, 3, <<"1", ".", "j">>)

MsgPool == {M1, M2, M3, MText, MNum}

\* a later message whose attachment has the same name as that of message 1
MDup == Msg(6, 2, NameA)

\* the name the external tool gives a downloaded file:
\* <dialog id>_<message id>_<original name>
ToolName(m) == <<"9", "_">> \o IntToStr(m.id) \o <<"_">> \o m.file

\* file names a destination can hold before a run
NamePool ==
  { <<"1", ".", "j">>, <<"2", ".", "j">>, <<"2", "_", "1", ".", "j">>,
    <<"3", ".", "j">>, <<"4", ".", "j">>, <<"0", "1", ".", "j">>,
    NameA, NameB, ToolName(M1), ToolName(M2), <<"x">> }

HasFile(m) == m.file # NoFile

(***************************************************************************)
(* Manifest reconciler                                                     *)
(***************************************************************************)
\* message ids parsed from the file names of a destination
DownloadedMessageIds(files) ==
  {ParseInt(IdStem(f)) : f \in {g \in files : IsIntLiteral(IdStem(g))}}

\* mutant: a record is dropped on its id alone, file reference or not
FilterSkips_AnyRecord(m, files) ==
  m.id # 0 /\ m.id \in DownloadedMessageIds(files)

\* the filter's test for "already downloaded"
FilterSkips(m, files) ==
  HasFile(m) /\ m.id # 0 /\ m.id \in DownloadedMessageIds(files)

FilteredMessages(messages, files) ==
  SelectSeq(messages, LAMBDA m : ~FilterSkips(m, files))

\* _filter_export_for_download: kind "none" is the None result, "original"
\* the unchanged manifest path, "filtered" a written filtered copy
FilterExportForDownload(messages, files) ==
  LET kept    == FilteredMessages(messages, files)
      skipped == Len(messages) - Len(kept)
  IN IF skipped > 0 /\ Len(kept) = 0 THEN [kind |-> "none", msgs |-> <<>>]
     ELSE IF skipped = 0 THEN [kind |-> "original", msgs |-> messages]
     ELSE [kind |-> "filtered", msgs |-> kept]

\* some file name's id stem equals str(message_id)
PresentById(m, files) == \E f \in files : IdStem(f) = IntToStr(m.id)

\* some file name ends with the original name (covers the exact match)
PresentByName(m, files) == \E f \in files : EndsWith(f, m.file) \/ f = m.file

\* mutant: only files named by the message id count as present
IsDownloaded_ByIdOnly(m, files) == PresentById(m, files)

\* is_downloaded of _get_max_downloaded_timestamp
IsDownloaded(m, files) == PresentById(m, files) \/ PresentByName(m, files)

\* _get_max_downloaded_timestamp; 0 stands for None
GetMaxDownloadedTimestamp(messages, files) ==
  LET cand == {messages[i].date : i \in
                 {j \in 1..Len(messages) :
                    /\ HasFile(messages[j])
                    /\ messages[j].id # 0
                    /\ IsDownloaded(messages[j], files)
                    /\ messages[j].date # 0}}
  IN IF files = {} \/ cand = {} THEN 0
     ELSE CHOOSE x \in cand : \A y \in cand : y <= x

\* mutant: the verification after a timeout always answers yes
VerifyDownloadComplete_Always(messages, files) == TRUE

\* _verify_download_complete
VerifyDownloadComplete(messages, files) ==
  LET I == {i \in 1..Len(messages) : HasFile(messages[i])}
  IN IF I = {} THEN TRUE
     ELSE LET last == messages[CHOOSE i \in I : \A j \in I : j <= i]
          IN \/ (last.id # 0 /\ PresentById(last, files))
             \/ PresentByName(last, files)

RECURSIVE BuildFileToId(_, _)
\* file_to_id of _rename_files_by_timestamp, a dict kept as a sequence of
\* <<original name, id>> in insertion order; a repeated name replaces the id
BuildFileToId(messages, acc) ==
  IF messages = <<>> THEN acc
  ELSE LET m == Head(messages)
           known == {i \in 1..Len(acc) : acc[i][1] = m.file}
       IN IF ~HasFile(m) \/ m.id = 0
          THEN BuildFileToId(Tail(messages), acc)
          ELSE IF known = {}
          THEN BuildFileToId(Tail(messages), Append(acc, <<m.file, m.id>>))
          ELSE BuildFileToId(Tail(messages),
                 [i \in 1..Len(acc) |->
                    IF i \in known THEN <<m.file, m.id>> ELSE acc[i]])

\* the id of the first mapping whose original name the file name ends with, 0 if none
MatchedId(name, fileToId) ==
  LET I == {i \in 1..Len(fileToId) : EndsWith(name, fileToId[i][1])}
  IN IF I = {} THEN 0
     ELSE fileToId[CHOOSE i \in I : \A j \in I : i <= j][2]

\* mutant: the target name is used whether it exists or not
CollisionFree_Unchecked(id, ext, n, name, files) == IntToStr(id) \o ext

RECURSIVE CollisionFree(_, _, _, _, _)
\* the while loop that appends _<n> until the target is free or is the file itself
CollisionFree(id, ext, n, name, files) ==
  LET cand == IF n = 0 THEN IntToStr(id) \o ext
              ELSE IntToStr(id) \o <<"_">> \o IntToStr(n) \o ext
  IN IF cand \in files /\ cand # name
     THEN CollisionFree(id, ext, n + 1, name, files)
     ELSE cand

RECURSIVE RenameLoop(_, _, _, _)
\* the loop over the files found in the destination, in the order given
RenameLoop(order, fileToId, files, count) ==
  IF order = <<>> THEN [files |-> files, count |-> count]
  ELSE LET name == Head(order)
           id   == MatchedId(name, fileToId)
       IN IF id = 0 THEN RenameLoop(Tail(order), fileToId, files, count)
          ELSE LET new == CollisionFree(id, PathSuffix(name), 0, name, files)
               IN IF new = name
                  THEN RenameLoop(Tail(order), fileToId, files, count)
                  ELSE RenameLoop(Tail(order), fileToId,
                                  (files \ {name}) \cup {new}, count + 1)

\* the orders in which rglob can list a set of files
Orders(files) ==
  {o \in [1..Cardinality(files) -> files] :
     \A i, j \in 1..Cardinality(files) : i # j => o[i] # o[j]}

\* _rename_files_by_timestamp: the possible outcomes [files, count], one for
\* each order of the directory listing
RenameFilesByTimestamp(messages, files) ==
  LET fileToId == BuildFileToId(messages, <<>>)
  IN IF fileToId = <<>> THEN {[files |-> files, count |-> 0]}
     ELSE {RenameLoop(o, fileToId, files, 0) : o \in Orders(files)}

(***************************************************************************)
(* State                                                                   *)
(***************************************************************************)
VARIABLES
  pm,      \* reconciler specifications: the manifest
  pd,      \* reconciler specifications: the files of the destination
  pass1,   \* first filter pass: [done, dest, res]
  pass2,   \* second filter pass: [done, dest, res]
  now,          \* time.time()
  chat,         \* chats table: per source the checkpoint and the enable flags
  exports,      \* exports table, row id = index
  downloads,    \* downloads table, row id = index
  job_logs,     \* job_logs table, row id = index
  schedules,    \* schedules table, one optional row per (source, job type)
  running_jobs, \* TDLScheduler._running_jobs
  disk,         \* files of each source's destination directory
  th,           \* per thread: position and locals of the job it executes
  batch,        \* locals of _run_batch_sync_and_download in the cron thread
  sys           \* the process (up) and the scheduler.enabled setting

pureVars == <<pm, pd, pass1, pass2>>
storeVars == <<chat, exports, downloads, job_logs, schedules>>
sysVars == <<now, chat, exports, downloads, job_logs, schedules, running_jobs,
             disk, th, batch, sys>>
vars == <<pm, pd, pass1, pass2, now, chat, exports, downloads, job_logs,
          schedules, running_jobs, disk, th, batch, sys>>

NoPass == [done |-> FALSE, dest |-> {}, res |-> [kind |-> "none", msgs |-> <<>>]]

RECURSIVE SeqsUpTo(_, _)
SeqsUpTo(S, n) ==
  IF n = 0 THEN {<<>>}
  ELSE LET R == SeqsUpTo(S, n - 1)
       IN R \cup {Append(s, x) : s \in {r \in R : Len(r) = n - 1}, x \in S}

Manifests == SeqsUpTo(MsgPool, MaxManifestLen)

InitDests == {D \in SUBSET NamePool : Cardinality(D) <= MaxInitFiles}

(***************************************************************************)
(* Store, threads and process: initial values and helpers                  *)
(***************************************************************************)
\* a thread that runs no job: its position and the locals of the job
\* functions; overlapped records that another invocation of the same job
\* was skipped while this one held the key; grew_at is the iteration of the
\* monitoring loop that last saw the log grow (-1: none yet); proc and
\* exit_code are the state of the launched download tool
IdleThread ==
  [pc |-> "idle", job |-> "none", chat |-> 0, trigger |-> "none",
   log |-> 0, exp |-> 0, dl |-> 0, filtered |-> <<>>, existing |-> 0,
   idle_seconds |-> 0, total_seconds |-> 0, returncode |-> 0, judged |-> "none",
   overlapped |-> FALSE, grew_at |-> -1, proc |-> "none", exit_code |-> 0]

\* the batch loop's locals; started and done record the jobs it has called
\* and those that returned, failed the ExportRuns of its syncs that failed
\* and synced those of its syncs that succeeded
IdleBatch == [sync_ids |-> {}, dl_ids |-> {}, todo |-> {}, started |-> <<>>,
              done |-> <<>>, failed |-> {}, synced |-> {}]

\* the Schedule rows of one (job type, source): n is their number, the
\* other fields are those of the row the queries return first
NoSchedule == [exists |-> FALSE, is_enabled |-> FALSE, has_next |-> FALSE,
               n |-> 0]

\* the messages of a source in the order the tool exports them; a message
\* exists from the second its date names
FeedSeq == <<M1, MText, M2, M3>>

\* the manifest the export tool writes for the window [start, end]
ToolExport(start, end) ==
  SelectSeq(FeedSeq, LAMBDA m : start <= m.date /\ m.date <= end)

\* _parse_export_file: (message_count, media_count)
MessageCount(messages) == Len(messages)
MediaCount(messages) == Cardinality({i \in 1..Len(messages) : HasFile(messages[i])})

\* mutant: the window starts right after the end of the source's latest
\* export
ExportStart_AfterLastExport(c) ==
  LET I == {i \in 1..Len(exports) : exports[i].chat = c}
  IN IF I = {} THEN 0
     ELSE exports[CHOOSE i \in I : \A j \in I : j <= i].end + 1

\* export_messages, incremental: the start of the requested window
ExportStart(c) ==
  IF chat[c].last_ts # 0 THEN chat[c].last_ts + 1 ELSE 0

\* db.create_export followed by update_export_status(export.id, 'running')
NewExport(c) ==
  [chat |-> c, start |-> ExportStart(c), end |-> now, status |-> "running",
   message_count |-> 0, media_count |-> 0, msgs |-> <<>>]

\* the export row once the tool has returned (ok: return code 0)
FinishedExport(e, ok) ==
  IF ok
  THEN LET msgs == ToolExport(e.start, e.end)
       IN [e EXCEPT !.status = "completed", !.msgs = msgs,
                    !.message_count = MessageCount(msgs),
                    !.media_count = MediaCount(msgs)]
  ELSE [e EXCEPT !.status = "failed"]

\* db.create_job_log
NewJobLog(c, jt, trig) ==
  [chat |-> c, job_type |-> jt, trigger |-> trig, status |-> "running"]

\* mutant: only a success is written to the JobLog
UpdateJobLog_SuccessOnly(logs, id, status) ==
  IF id = 0 \/ status = "failed" THEN logs
  ELSE [logs EXCEPT ![id].status = status]

\* db.update_job_log(job_log.id, status=...), skipped when no log was created
UpdateJobLog(logs, id, status) ==
  IF id = 0 THEN logs ELSE [logs EXCEPT ![id].status = status]

\* the row with the largest id among the exports of a chat, 0 when none
LastExportOf(c) ==
  LET I == {i \in 1..Len(exports) : exports[i].chat = c}
  IN IF I = {} THEN 0 ELSE CHOOSE i \in I : \A j \in I : j <= i

\* a completed download exists for the export
HasCompletedDownload(e) ==
  \E i \in 1..Len(downloads) :
    downloads[i].export = e /\ downloads[i].status = "completed"

RECURSIVE PreRenameOver(_, _)
\* the pre-download renames: one rename pass per completed export of the
\* chat, oldest first; the set of directory contents that can result
PreRenameOver(ids, dirs) ==
  IF ids = <<>> THEN dirs
  ELSE PreRenameOver(Tail(ids),
         UNION {{r.files : r \in RenameFilesByTimestamp(exports[Head(ids)].msgs, d)}
                  : d \in dirs})

RECURSIVE AscendingSeq(_)
AscendingSeq(S) ==
  IF S = {} THEN <<>>
  ELSE LET x == CHOOSE y \in S : \A z \in S : y <= z
       IN <<x>> \o AscendingSeq(S \ {x})

PreRename(c, files) ==
  PreRenameOver(
    AscendingSeq({i \in 1..Len(exports) :
                    exports[i].chat = c /\ exports[i].status = "completed"}),
    {files})

JobKey(t) == <<th[t].job, th[t].chat>>

\* a thread record that is inside run_sync_job / run_download_job, past the
\* guard
Active(r) ==
  r.job \in JobTypes /\ r.pc \notin {"idle", "guard", "batch_next"}

\* a thread about to enter run_sync_job / run_download_job
AtGuard(jt, c, trig) ==
  [IdleThread EXCEPT !.pc = "guard", !.job = jt, !.chat = c, !.trigger = trig]

\* mutant: a job that ends with a failed JobLog ends the batch loop
AfterJob_AbortOnFailure(t) ==
  IF t # "cron" THEN IdleThread
  ELSE IF th[t].log # 0 /\ job_logs'[th[t].log].status = "failed"
  THEN IdleThread
  ELSE IF th[t].job = "sync" /\ th[t].chat \in batch.dl_ids
  THEN AtGuard("download", th[t].chat, "scheduled")
  ELSE [IdleThread EXCEPT !.pc = "batch_next"]

\* where a thread goes when its job function returns: a manual or command
\* line thread ends; the cron thread goes on with the batch loop, to the
\* download of the same chat after its sync when the chat needs one
AfterJob(t) ==
  IF t # "cron" THEN IdleThread
  ELSE IF th[t].job = "sync" /\ th[t].chat \in batch.dl_ids
  THEN AtGuard("download", th[t].chat, "scheduled")
  ELSE [IdleThread EXCEPT !.pc = "batch_next"]

\* the batch's record of the jobs it has started and those that returned
BatchAfterJob(t) ==
  IF t # "cron" THEN batch
  ELSE LET b == [batch EXCEPT !.done = Append(@, JobKey(t))]
       IN IF th[t].job = "sync" /\ th[t].chat \in batch.dl_ids
          THEN [b EXCEPT !.started = Append(@, <<"download", th[t].chat>>)]
          ELSE b

InitSys ==
  /\ now = 1
  /\ exports = <<>>
  /\ downloads = <<>>
  /\ job_logs = <<>>
  /\ schedules = [k \in JobTypes \X Chats |-> NoSchedule]
  /\ running_jobs = {}
  /\ th = [t \in Threads |-> IdleThread]
  /\ batch = IdleBatch

(***************************************************************************)
(* Reconciler specification: two filter passes over a growing destination *)
(***************************************************************************)
InitFilter ==
  /\ pm \in Manifests
  /\ pd \in InitDests
  /\ pass1 = NoPass
  /\ pass2 = NoPass
  /\ InitSys
  /\ chat = [c \in Chats |-> [last_ts |-> 0, sync_enabled |-> FALSE,
                                download_enabled |-> FALSE]]
  /\ disk = [c \in Chats |-> {}]
  /\ sys = [up |-> FALSE, enabled |-> TRUE]

\* first call of _filter_export_for_download(export_file, destination)
FilterPass1 ==
  /\ ~pass1.done
  /\ pass1' = [done |-> TRUE, dest |-> pd, res |-> FilterExportForDownload(pm, pd)]
  /\ UNCHANGED <<pm, pd, pass2>>
  /\ UNCHANGED sysVars

\* a file appears in the destination between the passes
FileAppears ==
  /\ pass1.done /\ ~pass2.done
  /\ Cardinality(pd) < MaxDestFiles
  /\ \E f \in NamePool \ pd : pd' = pd \cup {f}
  /\ UNCHANGED <<pm, pass1, pass2>>
  /\ UNCHANGED sysVars

\* second call on the same manifest against the grown destination
FilterPass2 ==
  /\ pass1.done /\ ~pass2.done
  /\ pass2' = [done |-> TRUE, dest |-> pd, res |-> FilterExportForDownload(pm, pd)]
  /\ UNCHANGED <<pm, pd, pass1>>
  /\ UNCHANGED sysVars

NextFilter == FilterPass1 \/ FileAppears \/ FilterPass2

SpecFilter == InitFilter /\ [][NextFilter]_vars

(***************************************************************************)
(* Reconciler specification: the three readers of one destination         *)
(***************************************************************************)
NoPresence == [done |-> FALSE, dest |-> {},
               res |-> [kind |-> "none", msgs |-> <<>>],
               max_ts |-> 0, verified |-> FALSE]

InitPresence ==
  /\ pm \in Manifests
  /\ pd \in InitDests
  /\ pass1 = NoPresence
  /\ pass2 = NoPass
  /\ InitSys
  /\ chat = [c \in Chats |-> [last_ts |-> 0, sync_enabled |-> FALSE,
                                download_enabled |-> FALSE]]
  /\ disk = [c \in Chats |-> {}]
  /\ sys = [up |-> FALSE, enabled |-> TRUE]

\* _filter_export_for_download, _get_max_downloaded_timestamp and
\* _verify_download_complete called on the same manifest and destination
PresencePass ==
  /\ ~pass1.done
  /\ pass1' = [done |-> TRUE, dest |-> pd,
               res |-> FilterExportForDownload(pm, pd),
               max_ts |-> GetMaxDownloadedTimestamp(pm, pd),
               verified |-> VerifyDownloadComplete(pm, pd)]
  /\ UNCHANGED <<pm, pd, pass2>>
  /\ UNCHANGED sysVars

NextPresence == PresencePass

SpecPresence == InitPresence /\ [][NextPresence]_vars

(***************************************************************************)
(* Reconciler specification: two rename passes in a row                    *)
(***************************************************************************)
NoRename == [done |-> FALSE, dest |-> {}, res |-> [files |-> {}, count |-> 0]]

InitRename ==
  /\ pm \in Manifests
  /\ pd \in InitDests
  /\ pass1 = NoRename
  /\ pass2 = NoRename
  /\ InitSys
  /\ chat = [c \in Chats |-> [last_ts |-> 0, sync_enabled |-> FALSE,
                                download_enabled |-> FALSE]]
  /\ disk = [c \in Chats |-> {}]
  /\ sys = [up |-> FALSE, enabled |-> TRUE]

\* first call of _rename_files_by_timestamp(export_file, destination)
RenamePass1 ==
  /\ ~pass1.done
  /\ \E r \in RenameFilesByTimestamp(pm, pd) :
       /\ pass1' = [done |-> TRUE, dest |-> pd, res |-> r]
       /\ pd' = r.files
  /\ UNCHANGED <<pm, pass2>>
  /\ UNCHANGED sysVars

\* second call, right after the first, with the same manifest
RenamePass2 ==
  /\ pass1.done /\ ~pass2.done
  /\ \E r \in RenameFilesByTimestamp(pm, pd) :
       /\ pass2' = [done |-> TRUE, dest |-> pd, res |-> r]
       /\ pd' = r.files
  /\ UNCHANGED <<pm, pass1>>
  /\ UNCHANGED sysVars

NextRename == RenamePass1 \/ RenamePass2

SpecRename == InitRename /\ [][NextRename]_vars

(***************************************************************************)
(* Scheduler jobs (src/src/scheduler.py)                                   *)
(***************************************************************************)
\* mutant: a returning job leaves its key in the set
Discard_Never(keys, key) == keys

\* finally: self._running_jobs.discard(job_key)
Discard(keys, key) == keys \ {key}

\* mutant: the key is added without looking whether it is already there
Guard_NoCheck(t) ==
  /\ th[t].pc = "guard"
  /\ running_jobs' = running_jobs \cup {JobKey(t)}
  /\ th' = [th EXCEPT ![t].pc = "begin"]
  /\ UNCHANGED <<pureVars, now, storeVars, disk, batch, sys>>

\* the overlap guard of run_sync_job / run_download_job, under self._lock
Guard(t) ==
  /\ th[t].pc = "guard"
  /\ IF JobKey(t) \in running_jobs
     THEN /\ th' = [u \in Threads |->
                      IF u = t THEN AfterJob(t)
                      ELSE IF Active(th[u]) /\ JobKey(u) = JobKey(t)
                      THEN [th[u] EXCEPT !.overlapped = TRUE]
                      ELSE th[u]]
          /\ batch' = BatchAfterJob(t)
          /\ UNCHANGED running_jobs
     ELSE /\ running_jobs' = running_jobs \cup {JobKey(t)}
          /\ th' = [th EXCEPT ![t].pc = "begin"]
          /\ UNCHANGED batch
  /\ UNCHANGED <<pureVars, now, storeVars, disk, sys>>

\* mutant: a disabled source is left alone whatever the trigger
DisabledForTrigger_AnyTrigger(enabled, trigger) == ~enabled

\* if not chat.sync_enabled and trigger == 'scheduled' (and the same test
\* on download_enabled)
DisabledForTrigger(enabled, trigger) == ~enabled /\ trigger = "scheduled"

\* run_sync_job after the guard: the enabled check, the JobLog, and
\* export_messages up to the launch of the export tool
SyncBegin(t) ==
  /\ th[t].pc = "begin" /\ th[t].job = "sync"
  /\ LET c == th[t].chat
     IN IF DisabledForTrigger(chat[c].sync_enabled, th[t].trigger)
        THEN /\ running_jobs' = Discard(running_jobs, JobKey(t))
             /\ th' = [th EXCEPT ![t] = AfterJob(t)]
             /\ batch' = BatchAfterJob(t)
             /\ UNCHANGED <<job_logs, exports>>
        ELSE /\ Len(job_logs) < MaxJobLogs /\ Len(exports) < MaxExports
             /\ job_logs' = Append(job_logs, NewJobLog(c, "sync", th[t].trigger))
             /\ exports' = Append(exports, NewExport(c))
             /\ th' = [th EXCEPT ![t].pc = "export_run",
                                 ![t].log = Len(job_logs) + 1,
                                 ![t].exp = Len(exports) + 1]
             /\ UNCHANGED <<running_jobs, batch>>
  /\ UNCHANGED <<pureVars, now, chat, downloads, schedules, disk, sys>>

\* the export tool returns; export_messages finalizes the ExportRun and
\* run_sync_job finalizes the JobLog and releases the key
SyncEnd(t) ==
  /\ th[t].pc = "export_run" /\ th[t].job = "sync"
  /\ \E ok \in BOOLEAN :
       /\ exports' = [exports EXCEPT ![th[t].exp] = FinishedExport(@, ok)]
       /\ job_logs' = UpdateJobLog(job_logs, th[t].log,
                                   IF ok THEN "completed" ELSE "failed")
       /\ batch' = IF t # "cron" THEN BatchAfterJob(t)
                    ELSE IF ok
                    THEN [BatchAfterJob(t) EXCEPT !.synced = @ \cup {th[t].exp}]
                    ELSE [BatchAfterJob(t) EXCEPT !.failed = @ \cup {th[t].exp}]
  /\ running_jobs' = Discard(running_jobs, JobKey(t))
  /\ th' = [th EXCEPT ![t] = AfterJob(t)]
  /\ UNCHANGED <<pureVars, now, chat, downloads, schedules, disk, sys>>

(***************************************************************************)
(* download_from_export (src/src/core.py)                                  *)
(***************************************************************************)
\* what the caller of download_from_export does with its result: nothing
\* for a direct call; run_download_job finalizes its JobLog, releases the
\* key and returns
ReturnFromDownload(t, success) ==
  /\ job_logs' = IF th[t].job = "download"
                 THEN UpdateJobLog(job_logs, th[t].log,
                                   IF success THEN "completed" ELSE "failed")
                 ELSE job_logs
  /\ running_jobs' = IF th[t].job = "download"
                     THEN Discard(running_jobs, JobKey(t)) ELSE running_jobs
  /\ batch' = BatchAfterJob(t)

\* mutant: the tool is launched whatever the filter returned
NothingToDownload_Never(f) == FALSE

\* if not filtered_export_file
NothingToDownload(f) == f.kind = "none"

\* download_from_export up to the launch of the download tool: the
\* DownloadRun row, the baseline count, the pre-download renames and the
\* filter; `thr` is the calling thread's record, c the chat, e the export
DownloadStart(t, thr, c, e) ==
  /\ Len(downloads) < MaxDownloads
  /\ \E d1 \in PreRename(c, disk[c]) :
       LET f  == FilterExportForDownload(exports[e].msgs, d1)
           n0 == Cardinality(disk[c])
       IN /\ disk' = [disk EXCEPT ![c] = d1]
          /\ IF NothingToDownload(f)
             THEN /\ downloads' = Append(downloads,
                       [export |-> e, status |-> "completed",
                        files_count |-> 0])
                  /\ th' = [th EXCEPT ![t] =
                              [thr EXCEPT !.pc = "dl_return", !.returncode = 0,
                                          !.dl = Len(downloads) + 1,
                                          !.existing = n0,
                                          !.judged = "nothing"]]
             ELSE /\ downloads' = Append(downloads,
                       [export |-> e, status |-> "running",
                        files_count |-> 0])
                  /\ th' = [th EXCEPT ![t] =
                              [thr EXCEPT !.pc = "dl_poll", !.exp = e,
                                          !.dl = Len(downloads) + 1,
                                          !.filtered = f.msgs,
                                          !.existing = n0,
                                          !.proc = "running"]]

\* mutant: an export without media is downloaded like any other
NoMedia_Never(e) == FALSE

\* mutant: only a completed export is tested for media
NoMedia_OfCompleted(e) ==
  exports[e].status = "completed" /\ exports[e].media_count = 0

\* if last_export.media_count == 0
NoMedia(e) == exports[e].media_count = 0

\* run_download_job after the guard: its checks, the JobLog, and
\* download_from_export up to the launch of the download tool
DlBegin(t) ==
  /\ th[t].pc = "begin" /\ th[t].job = "download"
  /\ LET c == th[t].chat
         e == LastExportOf(c)
     IN IF \/ DisabledForTrigger(chat[c].download_enabled, th[t].trigger)
           \/ e = 0
           \/ NoMedia(e)
           \/ HasCompletedDownload(e)
        THEN /\ running_jobs' = Discard(running_jobs, JobKey(t))
             /\ th' = [th EXCEPT ![t] = AfterJob(t)]
             /\ batch' = BatchAfterJob(t)
             /\ UNCHANGED <<job_logs, downloads, disk>>
        ELSE /\ Len(job_logs) < MaxJobLogs
             /\ job_logs' = Append(job_logs,
                                   NewJobLog(c, "download", th[t].trigger))
             /\ DownloadStart(t, [th[t] EXCEPT !.log = Len(job_logs) + 1,
                                               !.exp = e], c, e)
             /\ UNCHANGED <<running_jobs, batch>>
  /\ UNCHANGED <<pureVars, now, chat, exports, schedules, sys>>

\* the early return of download_from_export (nothing to download) reaches
\* its caller
DlReturnTrue(t) ==
  /\ th[t].pc = "dl_return"
  /\ ReturnFromDownload(t, TRUE)
  /\ th' = [th EXCEPT ![t] = AfterJob(t)]
  /\ UNCHANGED <<pureVars, now, chat, exports, downloads, schedules, disk, sys>>

\* what the download tool does during one second: write one of the files
\* of its manifest (and log), log only, stay quiet, or exit with a code
ToolActs(t) ==
  {[kind |-> "quiet", name |-> <<>>, rc |-> 0],
   [kind |-> "log", name |-> <<>>, rc |-> 0],
   [kind |-> "exit", name |-> <<>>, rc |-> 0],
   [kind |-> "exit", name |-> <<>>, rc |-> 1]}
  \cup {[kind |-> "file", name |-> ToolName(th[t].filtered[i]), rc |-> 0] :
          i \in {j \in 1..Len(th[t].filtered) :
                   /\ HasFile(th[t].filtered[j])
                   /\ ToolName(th[t].filtered[j]) \notin disk[th[t].chat]}}

DiskAfterAct(t, a) ==
  IF a.kind = "file" THEN [disk EXCEPT ![th[t].chat] = @ \cup {a.name}]
  ELSE disk

\* current_size > last_log_size: the log is private to the run, truncated
\* at its start and only appended to, and last_log_size is the size read
\* one second earlier, so the test holds exactly when the tool wrote during
\* this second
LogGrew(a) == a.kind \in {"file", "log"}

\* idle_seconds after the log size check of one iteration
IdleSecondsAfter(a, idle) == IF LogGrew(a) THEN 0 ELSE idle + 1

\* mutant: the idle kill waits for one more second without growth
IdleLimitReached_OneLater(idle) == idle > max_idle

\* if idle_seconds >= max_idle
IdleLimitReached(idle) == idle >= max_idle

\* one iteration of the monitoring loop: process.poll(), the log size
\* check, the idle kill; then the sleep of one second. The iteration
\* total_seconds runs that many seconds after the launch
DlPoll(t) ==
  /\ th[t].pc = "dl_poll"
  /\ th[t].total_seconds < max_total
  /\ \E a \in ToolActs(t) :
       LET idle == IdleSecondsAfter(a, th[t].idle_seconds)
           grew == IF LogGrew(a) THEN th[t].total_seconds ELSE th[t].grew_at
       IN /\ disk' = DiskAfterAct(t, a)
          /\ th' = [th EXCEPT ![t] =
               IF a.kind = "exit"
               THEN [@ EXCEPT !.pc = "dl_finish", !.returncode = a.rc,
                              !.judged = "natural", !.proc = "exited",
                              !.exit_code = a.rc]
               ELSE IF ~LogGrew(a) /\ IdleLimitReached(idle)
               THEN [@ EXCEPT !.pc = "dl_finish", !.returncode = 0,
                              !.judged = "idle", !.idle_seconds = idle,
                              !.proc = "killed"]
               ELSE [@ EXCEPT !.idle_seconds = idle,
                              !.grew_at = grew,
                              !.total_seconds = @ + 1]]
  /\ UNCHANGED <<pureVars, now, storeVars, running_jobs, batch, sys>>

\* the loop ran out: kill the process tree, then _verify_download_complete.
\* The tool's last second is not polled: what it wrote counts, and if it
\* exited during that second the kill finds nothing to end
DlTimeout(t) ==
  /\ th[t].pc = "dl_poll"
  /\ th[t].total_seconds = max_total
  /\ \E a \in ToolActs(t) :
       /\ disk' = DiskAfterAct(t, a)
       /\ th' = [th EXCEPT ![t].pc = "dl_finish",
                           ![t].judged = "timeout",
                           ![t].proc = IF a.kind = "exit" THEN "exited"
                                       ELSE "killed",
                           ![t].exit_code = a.rc,
                           ![t].returncode =
                              IF VerifyDownloadComplete(th[t].filtered,
                                                        disk'[th[t].chat])
                              THEN 0 ELSE -1]
  /\ UNCHANGED <<pureVars, now, storeVars, running_jobs, batch, sys>>

\* the types a timeout_total_seconds of the configuration file can have
\* and pass the validation isinstance(max_total, (int, float))
TimeoutTotalTypes == {"int", "float"}

\* range(max_total) with a float raises TypeError before the first
\* iteration: the except clause marks the DownloadRun failed and
\* download_from_export returns False; nothing has ended the tool
DlRangeError(t) ==
  /\ th[t].pc = "dl_poll"
  /\ th[t].total_seconds = 0
  /\ \E ty \in TimeoutTotalTypes : ty = "float"
  /\ downloads' = [downloads EXCEPT ![th[t].dl].status = "failed"]
  /\ ReturnFromDownload(t, FALSE)
  /\ th' = [th EXCEPT ![t] = AfterJob(t)]
  /\ UNCHANGED <<pureVars, now, chat, exports, schedules, disk, sys>>

\* mutant: the checkpoint is assigned whether or not a value was found
CheckpointAfter_Unconditional(old, maxts) == maxts

\* the checkpoint after a successful download
CheckpointAfter(old, maxts) == IF maxts # 0 THEN maxts ELSE old

\* mutant: the count of all files is stored, the baseline is not subtracted
NewFiles_Total(total, existing) == total

\* files_count of a completed DownloadRun
NewFiles(total, existing) == total - existing

\* return code 0: rename, count, DownloadRun completed, checkpoint; the
\* closing print names the undefined files_count, so control passes to the
\* except clause
DlFinishOk(t) ==
  /\ th[t].pc = "dl_finish" /\ th[t].returncode = 0
  /\ LET c == th[t].chat
     IN \E r \in RenameFilesByTimestamp(th[t].filtered, disk[c]) :
          LET total == Cardinality(r.files)
              maxts == GetMaxDownloadedTimestamp(exports[th[t].exp].msgs, r.files)
          IN /\ disk' = [disk EXCEPT ![c] = r.files]
             /\ downloads' = [downloads EXCEPT ![th[t].dl] =
                   [@ EXCEPT !.status = "completed",
                             !.files_count = NewFiles(total, th[t].existing)]]
             /\ chat' = [chat EXCEPT ![c].last_ts = CheckpointAfter(@, maxts)]
  /\ th' = [th EXCEPT ![t].pc = "dl_print"]
  /\ UNCHANGED <<pureVars, now, exports, job_logs, schedules, running_jobs,
                 batch, sys>>

\* the except clause of download_from_export: DownloadRun failed, return
\* False
DlCaught(t) ==
  /\ th[t].pc = "dl_print"
  /\ downloads' = [downloads EXCEPT ![th[t].dl].status = "failed"]
  /\ ReturnFromDownload(t, FALSE)
  /\ th' = [th EXCEPT ![t] = AfterJob(t)]
  /\ UNCHANGED <<pureVars, now, chat, exports, schedules, disk, sys>>

\* the rename pass of the failure branch (rename_by_timestamp is on)
RenameOnFailure(messages, files) ==
  RenameFilesByTimestamp(messages, files)

\* return code not 0: rename what was written, DownloadRun failed, return
\* False
DlFinishFail(t) ==
  /\ th[t].pc = "dl_finish" /\ th[t].returncode # 0
  /\ LET c == th[t].chat
     IN \E r \in RenameOnFailure(th[t].filtered, disk[c]) :
          disk' = [disk EXCEPT ![c] = r.files]
  /\ downloads' = [downloads EXCEPT ![th[t].dl].status = "failed"]
  /\ ReturnFromDownload(t, FALSE)
  /\ th' = [th EXCEPT ![t] = AfterJob(t)]
  /\ UNCHANGED <<pureVars, now, chat, exports, schedules, sys>>

(***************************************************************************)
(* Triggers: cron batch, manual trigger, command line, restart             *)
(***************************************************************************)
\* mutant: the batch takes every source that has a Schedule row
EnabledIds_AllRows(jt) ==
  {c \in Chats : schedules[<<jt, c>>].exists}

\* session.query(Schedule).filter_by(is_enabled=True), split by job_type
EnabledIds(jt) ==
  {c \in Chats : schedules[<<jt, c>>].exists /\ schedules[<<jt, c>>].is_enabled}

\* _run_scheduled_batch_job: the cron trigger fires; the enabled schedules
\* are read and the batch loop is entered (at most one instance runs)
CronTick ==
  /\ sys.up /\ sys.enabled
  /\ th["cron"].pc = "idle"
  /\ EnabledIds("sync") \cup EnabledIds("download") # {}
  /\ batch' = [IdleBatch EXCEPT !.sync_ids = EnabledIds("sync"),
                                !.dl_ids = EnabledIds("download"),
                                !.todo = EnabledIds("sync") \cup EnabledIds("download")]
  /\ th' = [th EXCEPT !["cron"].pc = "batch_next"]
  /\ UNCHANGED <<pureVars, now, storeVars, running_jobs, disk, sys>>

\* _update_next_run_time_for_all for the job types the batch covered
NextRunTimesUpdated ==
  [k \in JobTypes \X Chats |->
     IF /\ schedules[k].exists /\ schedules[k].is_enabled
        /\ (IF k[1] = "sync" THEN batch.sync_ids ELSE batch.dl_ids) # {}
     THEN [schedules[k] EXCEPT !.has_next = TRUE]
     ELSE schedules[k]]

\* mutant: the batch loop goes straight to the download of a chat
FirstJobOf_Download(c) == "download"

\* the first job the batch loop runs for a chat: its sync when it needs
\* one, else its download
FirstJobOf(c) ==
  IF c \in batch.sync_ids THEN "sync" ELSE "download"

\* the loop of _run_batch_sync_and_download: take the next chat of
\* list(set(...)), in whatever order the set yields, or finish the batch
BatchNext ==
  /\ th["cron"].pc = "batch_next"
  /\ IF batch.todo = {}
     THEN /\ schedules' = NextRunTimesUpdated
          /\ batch' = IdleBatch
          /\ th' = [th EXCEPT !["cron"] = IdleThread]
     ELSE /\ \E c \in batch.todo :
               /\ batch' = [batch EXCEPT !.todo = @ \ {c},
                              !.started = Append(@, <<FirstJobOf(c), c>>)]
               /\ th' = [th EXCEPT !["cron"] =
                           AtGuard(FirstJobOf(c), c, "scheduled")]
          /\ UNCHANGED schedules
  /\ UNCHANGED <<pureVars, now, chat, exports, downloads, job_logs,
                 running_jobs, disk, sys>>

\* trigger_job_manually: a background thread is started on the job
ManualTrigger(t, c, jt) ==
  /\ sys.up
  /\ th[t].pc = "idle"
  /\ th' = [th EXCEPT ![t] = AtGuard(jt, c, "manual")]
  /\ UNCHANGED <<pureVars, now, storeVars, running_jobs, disk, batch, sys>>

\* mutant: disabling leaves next_run_time as it was
SetEnabled_KeepNextRun(rows, c, jt, on) ==
  IF rows[<<jt, c>>].exists
  THEN [rows EXCEPT ![<<jt, c>>].is_enabled = on,
                    ![<<jt, c>>].has_next = on \/ @]
  ELSE rows

\* enable_job (on) / disable_job (~on) with a valid cron expression: the
\* Schedule rows afterwards; without a row the call returns False
SetEnabled(rows, c, jt, on) ==
  IF rows[<<jt, c>>].exists
  THEN [rows EXCEPT ![<<jt, c>>].is_enabled = on,
                    ![<<jt, c>>].has_next = on]
  ELSE rows

\* the web routes toggle_sync / toggle_download: the source's flag is
\* flipped, then enable_job / disable_job sets the Schedule row to match
ToggleJob(c, jt) ==
  /\ sys.up
  /\ LET on == IF jt = "sync" THEN ~chat[c].sync_enabled
               ELSE ~chat[c].download_enabled
     IN /\ chat' = IF jt = "sync" THEN [chat EXCEPT ![c].sync_enabled = on]
                   ELSE [chat EXCEPT ![c].download_enabled = on]
        /\ schedules' = SetEnabled(schedules, c, jt, on)
  /\ UNCHANGED <<pureVars, now, exports, downloads, job_logs, running_jobs,
                 disk, th, batch, sys>>

\* the cli command `export <chat>`: export_messages(chat), start to end
CliExport(c) ==
  /\ th["cli"].pc = "idle"
  /\ Len(exports) < MaxExports
  /\ \E ok \in BOOLEAN :
       exports' = Append(exports, FinishedExport(NewExport(c), ok))
  /\ UNCHANGED <<pureVars, now, chat, downloads, job_logs, schedules,
                 running_jobs, disk, th, batch, sys>>

\* the cli command `download <chat> --export-id <e>`: download_from_export
\* on any completed export of the chat
CliDownload(c, e) ==
  /\ th["cli"].pc = "idle"
  /\ e \in 1..Len(exports)
  /\ exports[e].chat = c /\ exports[e].status = "completed"
  /\ DownloadStart("cli", [IdleThread EXCEPT !.job = "direct", !.chat = c,
                                             !.exp = e], c, e)
  /\ UNCHANGED <<pureVars, now, chat, exports, job_logs, schedules,
                 running_jobs, batch, sys>>

\* the latest completed export of a chat, 0 if none
LastCompletedExportOf(c) ==
  LET I == {i \in 1..Len(exports) :
              exports[i].chat = c /\ exports[i].status = "completed"}
  IN IF I = {} THEN 0 ELSE CHOOSE i \in I : \A j \in I : j <= i

\* the route /api/download/<chat_id>: the last completed export, if it has
\* media, is handed to download_from_export in a new thread; the overlap
\* guard of the scheduler is not consulted
WebDownload(t, c) ==
  /\ sys.up
  /\ th[t].pc = "idle"
  /\ LET e == LastCompletedExportOf(c)
     IN /\ e # 0
        /\ exports[e].media_count # 0
        /\ DownloadStart(t, [IdleThread EXCEPT !.job = "direct", !.chat = c,
                                               !.exp = e], c, e)
  /\ UNCHANGED <<pureVars, now, chat, exports, job_logs, schedules,
                 running_jobs, batch, sys>>

\* the cli command `sync <chat>`, sync_chat up to the return of
\* export_messages: a failed export ends the call
CliSync(c) ==
  /\ th["cli"].pc = "idle"
  /\ Len(exports) < MaxExports
  /\ \E ok \in BOOLEAN :
       /\ exports' = Append(exports, FinishedExport(NewExport(c), ok))
       /\ th' = [th EXCEPT !["cli"] =
                   IF ok THEN [IdleThread EXCEPT !.pc = "sync_chat",
                                                 !.job = "sync_chat",
                                                 !.chat = c,
                                                 !.exp = Len(exports) + 1]
                   ELSE IdleThread]
  /\ UNCHANGED <<pureVars, now, chat, downloads, job_logs, schedules,
                 running_jobs, disk, batch, sys>>

\* sync_chat after a successful export: download_from_export when the
\* export reports media, else return True
SyncChatDownload(t) ==
  /\ th[t].pc = "sync_chat"
  /\ IF exports[th[t].exp].media_count > 0
     THEN DownloadStart(t, th[t], th[t].chat, th[t].exp)
     ELSE /\ th' = [th EXCEPT ![t] = IdleThread]
          /\ UNCHANGED <<downloads, disk>>
  /\ UNCHANGED <<pureVars, now, chat, exports, job_logs, schedules,
                 running_jobs, batch, sys>>

\* time passes; the clock is read by export_messages only, so the seconds
\* that pass during a download are not told apart
Tick ==
  /\ th["cli"].pc = "idle"
  /\ now < MaxTime
  /\ now' = now + 1
  /\ UNCHANGED <<pureVars, storeVars, running_jobs, disk, th, batch, sys>>

\* _cleanup_stale_jobs
CleanupStaleJobs(logs) ==
  [i \in 1..Len(logs) |->
     IF logs[i].status = "running" THEN [logs[i] EXCEPT !.status = "failed"]
     ELSE logs[i]]

\* mutant: every startup adds a row that takes the source's flag
InitializeSchedules_Recreate ==
  [k \in JobTypes \X Chats |->
     LET on == IF k[1] = "sync" THEN chat[k[2]].sync_enabled
               ELSE chat[k[2]].download_enabled
     IN [exists |-> TRUE, is_enabled |-> on, has_next |-> on,
         n |-> schedules[k].n + 1]]

\* _initialize_schedules followed by _create_all_jobs
InitializeSchedules ==
  [k \in JobTypes \X Chats |->
     LET row == IF schedules[k].exists THEN schedules[k]
                ELSE [exists |-> TRUE,
                      is_enabled |-> IF k[1] = "sync"
                                     THEN chat[k[2]].sync_enabled
                                     ELSE chat[k[2]].download_enabled,
                      has_next |-> FALSE,
                      n |-> 1]
     IN IF row.is_enabled THEN [row EXCEPT !.has_next = TRUE] ELSE row]

\* whether start() goes past its check of the scheduler's enabled setting
StartProceeds == sys.enabled

\* the process starts: TDLScheduler() and start()
Start ==
  /\ ~sys.up
  /\ sys' = [sys EXCEPT !.up = TRUE]
  /\ IF StartProceeds
     THEN /\ job_logs' = CleanupStaleJobs(job_logs)
          /\ schedules' = InitializeSchedules
     ELSE UNCHANGED <<job_logs, schedules>>
  /\ UNCHANGED <<pureVars, now, chat, exports, downloads, running_jobs, disk,
                 th, batch>>

\* the process dies: threads and the in-memory guard are lost, rows stay
Crash ==
  /\ sys.up
  /\ sys' = [sys EXCEPT !.up = FALSE]
  /\ th' = [t \in Threads |-> IF t = "cli" THEN th[t] ELSE IdleThread]
  /\ running_jobs' = {}
  /\ batch' = IdleBatch
  /\ UNCHANGED <<pureVars, now, storeVars, disk>>

\* the process dies inside toggle_sync / toggle_download, after the commit
\* of the source's flag and before enable_job / disable_job
ToggleCrash(c, jt) ==
  /\ sys.up
  /\ chat' = IF jt = "sync"
             THEN [chat EXCEPT ![c].sync_enabled = ~@]
             ELSE [chat EXCEPT ![c].download_enabled = ~@]
  /\ sys' = [sys EXCEPT !.up = FALSE]
  /\ th' = [t \in Threads |-> IF t = "cli" THEN th[t] ELSE IdleThread]
  /\ running_jobs' = {}
  /\ batch' = IdleBatch
  /\ UNCHANGED <<pureVars, now, exports, downloads, job_logs, schedules, disk>>

(***************************************************************************)
(* Specifications                                                          *)
(***************************************************************************)
PureIdle ==
  /\ pm = <<>>
  /\ pd = {}
  /\ pass1 = NoPass
  /\ pass2 = NoPass

\* destination directories outlive the process and its database: the
\* directory of source 1 is empty or already holds the file of message 1
InitDisks ==
  {[c \in Chats |-> IF c = 1 THEN d ELSE {}] : d \in {{}, {<<"1", ".", "j">>}}}

\* the scheduler with its cron batch and manual triggers; source 1 has both
\* jobs enabled, source 2 is sync-only
Init ==
  /\ PureIdle
  /\ InitSys
  /\ chat = [c \in Chats |-> [last_ts |-> 0, sync_enabled |-> TRUE,
                                download_enabled |-> (c = 1)]]
  /\ disk \in InitDisks
  /\ sys \in [up : {FALSE}, enabled : BOOLEAN]

SchedThreads == {"cron"} \cup ManualThreads

JobStep(t) ==
  \/ Guard(t)
  \/ SyncBegin(t)
  \/ SyncEnd(t)
  \/ DlBegin(t)
  \/ DlReturnTrue(t)
  \/ DlPoll(t)
  \/ DlTimeout(t)
  \/ DlRangeError(t)
  \/ DlFinishOk(t)
  \/ DlCaught(t)
  \/ DlFinishFail(t)

Next ==
  \/ Start
  \/ Crash
  \/ CronTick
  \/ BatchNext
  \/ \E t \in ManualThreads, c \in Chats, jt \in JobTypes : ManualTrigger(t, c, jt)
  \/ \E t \in SchedThreads : JobStep(t)

Spec == Init /\ [][Next]_vars

InitDL ==
  /\ PureIdle
  /\ InitSys
  /\ chat = [c \in Chats |-> [last_ts |-> 0, sync_enabled |-> FALSE,
                              download_enabled |-> FALSE]]
  /\ disk = [c \in Chats |-> {}]
  /\ sys = [up |-> FALSE, enabled |-> TRUE]

\* source 1 driven from the command line: exports, and downloads of any of
\* its exports, one after the other
NextDL ==
  \/ Tick
  \/ \E c \in {1} : CliExport(c)
  \/ \E c \in {1}, e \in 1..MaxExports : CliDownload(c, e)
  \/ \E c \in {1} : CliSync(c)
  \/ SyncChatDownload("cli")
  \/ DlReturnTrue("cli")
  \/ DlPoll("cli")
  \/ DlTimeout("cli")
  \/ DlRangeError("cli")
  \/ DlFinishOk("cli")
  \/ DlCaught("cli")
  \/ DlFinishFail("cli")

SpecDL == InitDL /\ [][NextDL]_vars

\* the cron batch of the scheduler process while the command line is used
\* on source 1 in a second process that shares the database and the
\* destination: `export` and `sync`
NextTick ==
  \/ Start
  \/ CronTick
  \/ BatchNext
  \/ \E c \in {1} : CliExport(c)
  \/ \E c \in {1} : CliSync(c)
  \/ SyncChatDownload("cli")
  \/ \E t \in {"cron", "cli"} : JobStep(t)

SpecTick == Init /\ [][NextTick]_vars

\* the scheduler process with the web interface used on source 1: its flags
\* are toggled and its jobs triggered by hand while the cron batch runs
NextManual ==
  \/ Start
  \/ CronTick
  \/ BatchNext
  \/ \E jt \in JobTypes : ToggleJob(1, jt)
  \/ \E t \in ManualThreads, jt \in JobTypes : ManualTrigger(t, 1, jt)
  \/ \E t \in SchedThreads : JobStep(t)

SpecManual == Init /\ [][NextManual]_vars

\* the scheduler process with the dashboard's download button used on
\* source 1 while the cron batch runs
NextWeb ==
  \/ Start
  \/ CronTick
  \/ BatchNext
  \/ \E t \in WebThreads : WebDownload(t, 1)
  \/ \E t \in {"cron"} \cup WebThreads : JobStep(t)

SpecWeb == Init /\ [][NextWeb]_vars

\* what the export tool can come back with: its return code, and whether
\* the file it left can be read as a manifest
ExportOutcomes ==
  {[rc |-> 0, parsable |-> TRUE], [rc |-> 0, parsable |-> FALSE],
   [rc |-> 1, parsable |-> TRUE], [rc |-> 1, parsable |-> FALSE]}

\* _parse_export_file: the counts, (0, 0) when the file cannot be parsed
ParseExportFile(msgs, parsable) ==
  IF parsable THEN <<MessageCount(msgs), MediaCount(msgs)>> ELSE <<0, 0>>

\* mutant: the export is completed whatever the return code
ExportStatusFor_Completed(rc) == "completed"

\* if result.returncode == 0
ExportStatusFor(rc) == IF rc = 0 THEN "completed" ELSE "failed"

\* export_messages up to db.create_export: the row is pending
ExpCreate(c) ==
  /\ th["cli"].pc = "idle"
  /\ Len(exports) < MaxExports
  /\ exports' = Append(exports, [NewExport(c) EXCEPT !.status = "pending"])
  /\ th' = [th EXCEPT !["cli"] =
              [IdleThread EXCEPT !.pc = "exp_pending", !.job = "direct",
                                 !.chat = c, !.exp = Len(exports) + 1]]
  /\ UNCHANGED <<pureVars, now, chat, downloads, job_logs, schedules,
                 running_jobs, disk, batch, sys>>

\* update_export_status(export.id, 'running'), then the tool is started
ExpRun ==
  /\ th["cli"].pc = "exp_pending"
  /\ exports' = [exports EXCEPT ![th["cli"].exp].status = "running"]
  /\ th' = [th EXCEPT !["cli"].pc = "exp_run", !["cli"].proc = "running"]
  /\ UNCHANGED <<pureVars, now, chat, downloads, job_logs, schedules,
                 running_jobs, disk, batch, sys>>

\* the tool returns: the row is finalized and export_messages returns the
\* export (exp: its id) or None (exp: 0)
ExpReturn ==
  /\ th["cli"].pc = "exp_run"
  /\ \E out \in ExportOutcomes :
       LET e      == th["cli"].exp
           msgs   == ToolExport(exports[e].start, exports[e].end)
           counts == ParseExportFile(msgs, out.parsable)
           st     == ExportStatusFor(out.rc)
       IN /\ exports' = [exports EXCEPT ![e] =
                IF st = "completed"
                THEN [@ EXCEPT !.status = st,
                               !.msgs = IF out.parsable THEN msgs ELSE <<>>,
                               !.message_count = counts[1],
                               !.media_count = counts[2]]
                ELSE [@ EXCEPT !.status = st]]
          /\ th' = [th EXCEPT !["cli"] =
                [@ EXCEPT !.pc = "exp_returned",
                          !.proc = "exited",
                          !.exit_code = out.rc,
                          !.judged = IF out.parsable THEN "parsed"
                                     ELSE "unparsable",
                          !.exp = IF st = "completed" THEN e ELSE 0]]
  /\ UNCHANGED <<pureVars, now, chat, downloads, job_logs, schedules,
                 running_jobs, disk, batch, sys>>

\* the command that called export_messages ends
ExpExit ==
  /\ th["cli"].pc = "exp_returned"
  /\ th' = [th EXCEPT !["cli"] = IdleThread]
  /\ UNCHANGED <<pureVars, now, storeVars, running_jobs, disk, batch, sys>>

\* exports of both sources from the command line, step by step
NextExport ==
  \/ Tick
  \/ \E c \in Chats : ExpCreate(c)
  \/ ExpRun
  \/ ExpReturn
  \/ ExpExit

SpecExport == InitDL /\ [][NextExport]_vars

\* the manifests a failed run can have handed to the tool: records with a
\* file, each once
FailManifests ==
  {q \in SeqsUpTo({M1, M2, MDup}, MaxManifestLen) :
     \A i, j \in 1..Len(q) : i # j => q[i] # q[j]}

\* the destination when the failure branch is entered: some of the
\* manifest's files, under the names the tool gives them, next to files of
\* other records that earlier runs left under their canonical names
FailDests(q) ==
  {w \cup e :
     w \in SUBSET {ToolName(q[i]) : i \in 1..Len(q)},
     e \in SUBSET {IntToStr(m.id) \o PathSuffix(m.file) :
                     m \in {M1, M2, MDup} \ {q[i] : i \in 1..Len(q)}}}

InitFail ==
  /\ pm \in FailManifests
  /\ pd \in FailDests(pm)
  /\ pass1 = NoRename
  /\ pass2 = NoRename
  /\ InitSys
  /\ chat = [c \in Chats |-> [last_ts |-> 0, sync_enabled |-> FALSE,
                                download_enabled |-> FALSE]]
  /\ disk = [c \in Chats |-> {}]
  /\ sys = [up |-> FALSE, enabled |-> TRUE]

\* the failure branch of download_from_export up to the update of the
\* DownloadRun: the rename pass over the manifest given to the tool
FailureRename ==
  /\ ~pass1.done
  /\ \E r \in RenameOnFailure(pm, pd) :
       /\ pass1' = [done |-> TRUE, dest |-> pd, res |-> r]
       /\ pd' = r.files
  /\ UNCHANGED <<pm, pass2>>
  /\ UNCHANGED sysVars

NextFail == FailureRename

SpecFail == InitFail /\ [][NextFail]_vars

\* the destination a run finds when the run before it ended without its
\* rename pass (the process was stopped while the tool ran): files of the
\* manifest under the names the tool gave them, next to canonical ones
InitResume == InitFail

\* download_from_export from the pre-download rename to the filter, with
\* one prior completed export, the one being downloaded
ResumeStart ==
  /\ ~pass1.done
  /\ \E r \in RenameFilesByTimestamp(pm, pd) :
       /\ pass1' = [done |-> TRUE, dest |-> pd,
                    res |-> FilterExportForDownload(pm, r.files)]
       /\ pd' = r.files
  /\ UNCHANGED <<pm, pass2>>
  /\ UNCHANGED sysVars

NextResume == ResumeStart

SpecResume == InitResume /\ [][NextResume]_vars

\* startups, crashes and flag toggles of the scheduler process, without
\* any job
NextStart ==
  \/ Start
  \/ Crash
  \/ \E c \in Chats, jt \in JobTypes : ToggleJob(c, jt)
  \/ \E c \in Chats, jt \in JobTypes : ToggleCrash(c, jt)

SpecStart == Init /\ [][NextStart]_vars

(***************************************************************************)
(* Claims on the scheduler                                                 *)
(***************************************************************************)
\* C2: for every (source, job type) at most one invocation of
\* run_sync_job / run_download_job is past the overlap guard, whatever the
\* interleaving of batch ticks and manual triggers.
C2_AtMostOneActivePerKey ==
  \A t, u \in SchedThreads :
    (Active(th[t]) /\ Active(th[u]) /\ JobKey(t) = JobKey(u)) => t = u

\* C2 witness: two invocations are past the guard at once, on different
\* keys (jobs of different sources or job types are not serialized)
C2_Witness ==
  \E t, u \in SchedThreads :
    Active(th[t]) /\ Active(th[u]) /\ JobKey(t) # JobKey(u)

\* thread t, at the guard while another invocation of the same job holds
\* the key, takes its step (the process does not die in that step)
SkipCase(t) ==
  /\ th[t].pc = "guard"
  /\ \E u \in SchedThreads \ {t} : Active(th[u]) /\ JobKey(u) = JobKey(t)
  /\ th'[t] # th[t]
  /\ sys'.up

\* the job function of thread t returns (the process does not die)
Returns(t) == Active(th[t]) /\ ~Active(th'[t]) /\ sys'.up

Finalized(status) == status \in {"completed", "failed"}

\* C3 (as claimed): an invocation triggered while another one of the same
\* (source, job type) is running is skipped and creates no JobLog,
\* ExportRun or DownloadRun; and exactly one JobLog, the first
\* invocation's, transitions to completed or failed.
C3_SkippedExactlyOneJobLog ==
  [][\A t \in SchedThreads :
       /\ SkipCase(t) =>
            /\ ~Active(th'[t])
            /\ job_logs' = job_logs /\ exports' = exports
            /\ downloads' = downloads
       /\ (th[t].overlapped /\ Returns(t)) =>
            /\ th[t].log # 0
            /\ Finalized(job_logs'[th[t].log].status)]_vars

\* C3 (amended): the second invocation is skipped and creates no JobLog,
\* ExportRun or DownloadRun; the first invocation's JobLog, when it created
\* one, transitions to completed or failed on its return, and an invocation
\* that returned before creating its JobLog leaves none.
C3_SkippedAtMostOneJobLog ==
  [][\A t \in SchedThreads :
       /\ SkipCase(t) =>
            /\ ~Active(th'[t])
            /\ job_logs' = job_logs /\ exports' = exports
            /\ downloads' = downloads
       /\ (th[t].overlapped /\ Returns(t)) =>
            /\ Len(job_logs') = Len(job_logs)
            /\ th[t].log # 0 => Finalized(job_logs'[th[t].log].status)
            /\ \A i \in 1..Len(job_logs) :
                 i # th[t].log => job_logs'[i] = job_logs[i]]_vars

\* C3 witness: a second invocation has been skipped against an invocation
\* whose JobLog is running
C3_Witness ==
  \E t \in SchedThreads :
    /\ Active(th[t]) /\ th[t].overlapped
    /\ th[t].log # 0 /\ job_logs[th[t].log].status = "running"

C5_BatchOrder ==
  LET s == batch.started
      d == batch.done
  IN /\ Len(d) <= Len(s) /\ Len(s) <= Len(d) + 1
     /\ \A i \in 1..Len(d) : d[i] = s[i]
     /\ \A j \in 1..Len(s) :
          (s[j][1] = "download" /\ s[j][2] \in batch.sync_ids) =>
            j > 1 /\ s[j - 1] = <<"sync", s[j][2]>>
     /\ \A i, j \in 1..Len(s) :
          (i < j /\ s[i][2] = s[j][2]) => j = i + 1

\* C5 witness: the batch has run the export and then the download of one
\* source and has gone on to the next source
C5_Witness ==
  LET s == batch.started
  IN \E j \in 2..Len(s) :
       /\ s[j][1] = "download" /\ s[j - 1] = <<"sync", s[j][2]>>
       /\ Len(s) > j /\ Len(batch.done) >= j

(***************************************************************************)
(* Claims on download_from_export                                          *)
(***************************************************************************)
\* C1 (as claimed): over every sequence of download runs on a source,
\* direct calls on any of its exports included, no step lowers
\* last_successful_download_timestamp.
C1_CheckpointNeverDecreases ==
  [][\A c \in Chats : chat'[c].last_ts >= chat[c].last_ts]_vars

\* the thread has left the monitoring loop with return code 0 and has gone
\* through the success branch up to its closing print
JudgedSuccessful(t) ==
  th[t].pc = "dl_print" /\ th[t].judged \in {"natural", "idle", "timeout"}

\* C6 (as claimed): a supervised download judged successful (natural exit
\* with code 0, idle kill, or total timeout with the last file verified)
\* leaves its DownloadRun with the final status 'completed'.
C6_SuccessfulRunStaysCompleted ==
  [][\A t \in Threads :
       JudgedSuccessful(t) => downloads'[th[t].dl].status = "completed"]_vars

\* the step of thread t through the success branch of download_from_export
SuccessBranchStep(t) ==
  th[t].pc = "dl_finish" /\ th[t].returncode = 0 /\ th'[t].pc = "dl_print"

\* C7: the success branch sets the checkpoint to the maximum confirmed
\* timestamp when there is one; when there is none (None) the source's
\* last_successful_download_timestamp is exactly what it was before.
C7_CheckpointOnlyIfPresent ==
  [][\A t \in Threads :
       SuccessBranchStep(t) =>
         LET c == th[t].chat
             mx == GetMaxDownloadedTimestamp(exports[th[t].exp].msgs, disk'[c])
         IN /\ mx # 0 => chat'[c].last_ts = mx
            /\ mx = 0 => chat'[c].last_ts = chat[c].last_ts
            /\ \A o \in Chats \ {c} : chat'[o] = chat[o]]_vars

\* C7 witness: a success branch has run with no confirmed timestamp on a
\* source whose checkpoint was already set, and the checkpoint is still set
C7_Witness ==
  \E t \in Threads :
    /\ th[t].pc = "dl_print"
    /\ GetMaxDownloadedTimestamp(exports[th[t].exp].msgs, disk[th[t].chat]) = 0
    /\ chat[th[t].chat].last_ts # 0

\* C8: whenever a DownloadRun has just been finalized as completed, its
\* files_count is the number of files in the destination now minus the
\* number counted before the run, and it is not negative.
C8_FilesCountIsDelta ==
  \A t \in Threads :
    th[t].pc \in {"dl_print", "dl_return"} =>
      /\ downloads[th[t].dl].status = "completed"
      /\ downloads[th[t].dl].files_count
            = Cardinality(disk[th[t].chat]) - th[t].existing
      /\ downloads[th[t].dl].files_count >= 0

\* C8 witness: a run that started on a non-empty destination has been
\* finalized as completed with new files
C8_Witness ==
  \E t \in Threads :
    /\ th[t].pc = "dl_print"
    /\ th[t].existing > 0
    /\ downloads[th[t].dl].files_count > 0

(***************************************************************************)
(* Claims on the filter                                                    *)
(***************************************************************************)
\* a file named by the record's message id (optional _<n> suffix) is present
SatisfiedById(m, files) ==
  \E f \in files : IsIntLiteral(IdStem(f)) /\ ParseInt(IdStem(f)) = m.id

InSeq(m, s) == \E i \in 1..Len(s) : s[i] = m

\* the manifest carries at least one record with a file reference
HasMedia(messages) == \E i \in 1..Len(messages) : HasFile(messages[i])

\* C9 (as claimed): a record the first pass treats as satisfied is not
\* re-selected by a second pass against a destination that contains the
\* first one, and when that destination also holds the ID-named files of all
\* records the first pass selected, the second pass returns None.
\* (Stated for manifests that reference at least one file.)
C9_IdempotentFiltering ==
  (pass2.done /\ HasMedia(pm)) =>
    /\ \A i \in 1..Len(pm) :
         FilterSkips(pm[i], pass1.dest) => ~InSeq(pm[i], pass2.res.msgs)
    /\ (\A i \in 1..Len(pass1.res.msgs) :
          SatisfiedById(pass1.res.msgs[i], pass2.dest))
         => pass2.res.kind = "none"

\* the part of C9 the filter does keep: no skipped record is ever re-selected
C9_NeverReselected ==
  pass2.done =>
    \A i \in 1..Len(pm) :
      FilterSkips(pm[i], pass1.dest) => ~InSeq(pm[i], pass2.res.msgs)

\* C10 (as claimed): the filter returns None for every manifest in which
\* every record with a file reference is satisfied by an ID-named file,
\* whatever records without a file reference the manifest also contains.
\* (Stated for manifests that reference at least one file.)
C10_NoneWhenAllSatisfied ==
  (pass1.done /\ HasMedia(pm) /\ \A i \in 1..Len(pm) :
      HasFile(pm[i]) => SatisfiedById(pm[i], pass1.dest))
    => pass1.res.kind = "none"

C12_SecondRenameRenamesNothing ==
  pass2.done => pass2.res.count = 0

C14_NoIdleKillBeforeIdleTimeout ==
  \A t \in Threads :
    th[t].judged = "idle" =>
      th[t].total_seconds
        - (IF th[t].grew_at >= 0 THEN th[t].grew_at ELSE 0) >= max_idle

\* the last record of a manifest that carries a file reference is in the
\* destination: under its canonical id name, under a name that ends with
\* its original name, or under its original name; true when no record
\* carries a file reference
LastFilePresent(manifest, files) ==
  \/ \A i \in 1..Len(manifest) : ~HasFile(manifest[i])
  \/ \E i \in 1..Len(manifest) :
       /\ HasFile(manifest[i])
       /\ \A j \in (i + 1)..Len(manifest) : ~HasFile(manifest[j])
       /\ \E f \in files :
            \/ manifest[i].id # 0 /\ IdStem(f) = IntToStr(manifest[i].id)
            \/ EndsWith(f, manifest[i].file)

\* the step of thread t obeys the total timeout policy
TotalPolicyStep(t) ==
  /\ (th[t].pc = "dl_poll" /\ th'[t].pc = "dl_finish"
        /\ th'[t].judged = "timeout") =>
       /\ th[t].total_seconds = max_total
       /\ th'[t].proc # "running"
       /\ th'[t].returncode \in {0, -1}
       /\ th'[t].returncode = 0 <=>
            LastFilePresent(th[t].filtered, disk'[th[t].chat])
  /\ (th[t].pc = "dl_finish" /\ th[t].judged = "timeout"
        /\ th'[t].pc # "dl_finish") =>
       IF th[t].returncode = 0
       THEN th'[t].pc = "dl_print"
       ELSE /\ downloads'[th[t].dl].status = "failed"
            /\ chat' = chat

\* C15: when the monitoring loop runs out after max_total iterations (no
\* exit seen, no idle kill), the process tree is ended and the return code
\* is 0, so that the success branch is taken, exactly when the last
\* file-bearing record of the manifest given to the tool is present in the
\* destination (always, when it has no such record); otherwise the
\* DownloadRun becomes failed and no checkpoint changes.
C15_TotalTimeoutDecidedByLastFile ==
  [][\A t \in Threads : TotalPolicyStep(t)]_vars

\* C15 witness: a timeout whose verification failed
C15_Witness ==
  \E t \in Threads :
    /\ th[t].pc = "dl_finish" /\ th[t].judged = "timeout"
    /\ th[t].proc = "killed"
    /\ th[t].returncode = -1
    /\ \E i \in 1..Len(th[t].filtered) : HasFile(th[t].filtered[i])

\* C16 (as claimed): whenever the download tool has exited on its own, the
\* run is classified as a natural exit (no kill is issued) and the return
\* code that decides between the success and the failure branch is the
\* tool's exit code.
C16_NaturalExitCodeDecides ==
  \A t \in Threads :
    th[t].proc = "exited" =>
      /\ th[t].judged = "natural"
      /\ th[t].returncode = th[t].exit_code

\* C17 (as claimed): a run that has launched the tool is never in the
\* monitoring loop beyond max_total iterations and leaves it with a
\* classified outcome, and on every step on which download_from_export
\* returns (the thread's locals are dropped) the launched tool has exited
\* or has been killed.
C17_NoReturnWhileToolRuns ==
  [][\A t \in Threads :
       /\ th'[t].pc = "dl_poll" => th'[t].total_seconds <= max_total
       /\ th'[t].pc = "dl_finish" =>
            th'[t].judged \in {"natural", "idle", "timeout"}
       /\ (th[t].proc # "none" /\ th'[t].proc = "none") =>
            th[t].proc \in {"exited", "killed"}]_vars

(***************************************************************************)
(* Claims on the export window                                             *)
(***************************************************************************)
\* the start the claim states for a checkpoint (0: the source has none)
ClaimedStart(checkpoint) ==
  IF checkpoint = 0 THEN 0
  ELSE IF checkpoint + 1 > 0 THEN checkpoint + 1 ELSE 0

BatchCreatesDownloadRun ==
  /\ th["cron"].pc = "begin" /\ th["cron"].job = "download"
  /\ Len(downloads') = Len(downloads) + 1
  /\ th'["cron"].dl = Len(downloads')

\* the ExportRuns of source c that failed in the syncs of the running batch
FailedInTick(c) == {i \in batch.failed : exports[i].chat = c}

FlagOf(t) ==
  IF th[t].job = "sync" THEN chat[th[t].chat].sync_enabled
  ELSE chat[th[t].chat].download_enabled

NoNewRecords ==
  /\ job_logs' = job_logs /\ exports' = exports /\ downloads' = downloads
  /\ chat' = chat /\ disk' = disk

\* the step of thread t from the guard or from the start of its job
\* treats manual and scheduled invocations as the claim says
TriggerStep(t) ==
  LET c == th[t].chat
      e == LastExportOf(c)
  IN /\ (th[t].pc = "guard" /\ th'[t].pc # "guard"
           /\ JobKey(t) \in running_jobs) =>
          /\ th'[t].pc \in {"idle", "guard", "batch_next"}
          /\ running_jobs' = running_jobs
          /\ NoNewRecords
     /\ (th[t].pc = "begin" /\ th'[t].pc # "begin"
           /\ th[t].trigger = "scheduled" /\ ~FlagOf(t)) =>
          /\ th'[t].pc \in {"idle", "guard", "batch_next"}
          /\ NoNewRecords
     /\ (th[t].pc = "begin" /\ th'[t].pc # "begin"
           /\ th[t].trigger = "manual" /\ th[t].job = "sync") =>
          /\ th'[t].pc = "export_run"
          /\ Len(job_logs') = Len(job_logs) + 1
          /\ Len(exports') = Len(exports) + 1
          /\ exports'[Len(exports')].chat = c
     /\ (th[t].pc = "begin" /\ th'[t].pc # "begin"
           /\ th[t].trigger = "manual" /\ th[t].job = "download") =>
          (Len(downloads') = Len(downloads) + 1) <=>
            /\ e # 0
            /\ exports[e].media_count > 0
            /\ ~\E i \in 1..Len(downloads) :
                  downloads[i].export = e /\ downloads[i].status = "completed"

\* C20: a manually triggered job goes through its export / download logic
\* whatever the source's flag and the Schedule row say (a sync creates its
\* JobLog and ExportRun; a download creates its DownloadRun exactly when
\* the latest export has media and no completed download), it is skipped
\* without any record when its (source, job type) key is held, and a
\* scheduled invocation that finds the source's flag off returns without
\* creating or changing any record.
C20_ManualBypassesFlagsNotGuard ==
  [][\A t \in SchedThreads : TriggerStep(t)]_vars

\* C20 witness: a manual sync is running its export although the source's
\* sync flag and its Schedule row are off
C20_Witness ==
  \E t \in ManualThreads :
    /\ th[t].trigger = "manual" /\ th[t].job = "sync"
    /\ th[t].pc = "export_run"
    /\ ~chat[th[t].chat].sync_enabled
    /\ schedules[<<"sync", th[t].chat>>].exists
    /\ ~schedules[<<"sync", th[t].chat>>].is_enabled

(***************************************************************************)
(* Claims on enabling, disabling and startup                               *)
(***************************************************************************)
\* the sources whose Schedule row for job type jt is enabled
EnabledRows(jt) ==
  {c \in Chats : schedules[<<jt, c>>].exists /\ schedules[<<jt, c>>].is_enabled}

\* the sources a batch b covers for job type jt
BatchIds(b, jt) == IF jt = "sync" THEN b.sync_ids ELSE b.dl_ids

\* a tick takes exactly the pairs whose row is enabled when it fires, the
\* batch calls the job of exactly those pairs, and it ends only after it
\* has called them all
TickFollowsRows ==
  /\ (th["cron"].pc = "idle" /\ th'["cron"].pc # "idle") =>
       \A jt \in JobTypes : BatchIds(batch', jt) = EnabledRows(jt)
  /\ th'["cron"].job \in JobTypes =>
       th'["cron"].chat \in BatchIds(batch', th'["cron"].job)
  /\ (th["cron"].pc = "batch_next" /\ th'["cron"].pc = "idle") =>
       \A jt \in JobTypes : \A c \in BatchIds(batch, jt) :
         \E k \in 1..Len(batch.done) : batch.done[k] = <<jt, c>>

\* the batch's call of a job did not return from the overlap guard or from
\* the test of the source's flag
ScheduledCallWorks ==
  /\ (th["cron"].pc = "guard" /\ th'["cron"].pc # "guard") =>
       th'["cron"].pc = "begin"
  /\ (th["cron"].pc = "begin" /\ th'["cron"].pc # "begin"
        /\ th["cron"].job = "sync") =>
       th'["cron"].pc = "export_run"

\* C21 (as claimed): a tick runs the scheduled job of exactly the pairs
\* whose Schedule row is enabled at that tick, and each of these jobs
\* performs its work.
C21_WorkIffEnabledAtTick ==
  [][TickFollowsRows /\ ScheduledCallWorks]_vars

\* C21 (amended): a tick calls the scheduled job of exactly the pairs whose
\* Schedule row is enabled when the tick reads the rows, with no restart in
\* between; the called job performs its work unless the overlap guard finds
\* its key held or the source's flag is off when the job tests it.
C21_CalledIffEnabledAtTick ==
  [][/\ TickFollowsRows
     /\ (th["cron"].pc = "guard" /\ th'["cron"].pc # "guard") =>
          (th'["cron"].pc = "begin" <=> JobKey("cron") \notin running_jobs)
     /\ (th["cron"].pc = "begin" /\ th'["cron"].pc # "begin"
           /\ th["cron"].job = "sync") =>
          (th'["cron"].pc = "export_run" <=>
             chat[th["cron"].chat].sync_enabled)
     /\ (th["cron"].pc = "begin" /\ th'["cron"].pc # "begin"
           /\ th["cron"].job = "download"
           /\ ~chat[th["cron"].chat].download_enabled) =>
          /\ job_logs' = job_logs /\ downloads' = downloads
    ]_vars

\* C21 witness: a batch is running that leaves out the sync of source 1,
\* whose row was disabled after the startup, and covers its download
C21_Witness ==
  /\ th["cron"].pc # "idle"
  /\ schedules[<<"sync", 1>>].exists
  /\ ~schedules[<<"sync", 1>>].is_enabled
  /\ 1 \notin batch.sync_ids
  /\ 1 \in batch.dl_ids

\* the step flips the flag of source c for job type jt, which the web
\* routes follow with enable_job / disable_job
FlagFlipped(c, jt) ==
  IF jt = "sync" THEN chat'[c].sync_enabled # chat[c].sync_enabled
  ELSE chat'[c].download_enabled # chat[c].download_enabled

NewFlag(c, jt) ==
  IF jt = "sync" THEN chat'[c].sync_enabled ELSE chat'[c].download_enabled

\* C22: enable_job / disable_job changes only the Schedule row of its
\* (source, job type): enabled becomes the requested value and
\* next_run_time is set when enabling and cleared when disabling; every
\* other row, the threads, the running batch and the in-memory guard are
\* unchanged; when the pair has no row nothing changes.
C22_SetEnabledTouchesOneRow ==
  [][\A c \in Chats, jt \in JobTypes :
       FlagFlipped(c, jt) =>
         /\ \A k \in (JobTypes \X Chats) \ {<<jt, c>>} :
              schedules'[k] = schedules[k]
         /\ IF schedules[<<jt, c>>].exists
            THEN schedules'[<<jt, c>>] =
                   [schedules[<<jt, c>>] EXCEPT !.is_enabled = NewFlag(c, jt),
                                                !.has_next = NewFlag(c, jt)]
            ELSE schedules'[<<jt, c>>] = schedules[<<jt, c>>]
         /\ th' = th /\ batch' = batch /\ running_jobs' = running_jobs
         /\ sys' = sys /\ job_logs' = job_logs
    ]_vars

\* C22 witness: the sync row of source 1 has been disabled and its
\* next_run_time cleared while its download row is still enabled with a
\* next_run_time
C22_Witness ==
  /\ schedules[<<"sync", 1>>].exists
  /\ ~schedules[<<"sync", 1>>].is_enabled
  /\ ~schedules[<<"sync", 1>>].has_next
  /\ schedules[<<"download", 1>>].is_enabled
  /\ schedules[<<"download", 1>>].has_next

ChatFlag(k) ==
  IF k[1] = "sync" THEN chat[k[2]].sync_enabled
  ELSE chat[k[2]].download_enabled

\* what the claim says a startup does to the Schedule rows
RowsEnsured ==
  \A k \in JobTypes \X Chats :
    /\ schedules'[k].exists /\ schedules'[k].n = 1
    /\ schedules'[k].is_enabled =
         (IF schedules[k].exists THEN schedules[k].is_enabled ELSE ChatFlag(k))

FilterLeavesNothing(t) ==
  /\ Len(downloads') = Len(downloads) + 1
  /\ th'[t].dl = Len(downloads')
  /\ th[t].pc \in {"idle", "begin", "sync_chat"}
  /\ FilterExportForDownload(exports[th'[t].exp].msgs,
                             disk'[th'[t].chat]).kind = "none"

\* C25: when the filter leaves nothing to download, download_from_export
\* finalizes its DownloadRun as completed with files_count 0 without
\* launching the tool, changes no source's checkpoint, and returns True:
\* its caller gets the result without any further change to the run, the
\* checkpoint or the destination, and no tool was started on the way.
C25_NothingToDownloadCompletesAtOnce ==
  [][\A t \in Threads :
       /\ FilterLeavesNothing(t) =>
            /\ downloads'[th'[t].dl].status = "completed"
            /\ downloads'[th'[t].dl].files_count = 0
            /\ th'[t].proc = "none"
            /\ th'[t].pc = "dl_return"
            /\ chat' = chat
       /\ (th[t].pc = "dl_return" /\ th'[t].pc # "dl_return") =>
            /\ downloads' = downloads /\ chat' = chat /\ disk' = disk
            /\ th[t].proc = "none"
            /\ th[t].job = "download" =>
                 job_logs'[th[t].log].status = "completed"]_vars

\* C25 witness: a download on a source with a checkpoint found every file
\* of its manifest in the destination and is about to return
C25_Witness ==
  \E t \in Threads :
    /\ th[t].pc = "dl_return"
    /\ chat[th[t].chat].last_ts # 0
    /\ FilterExportForDownload(exports[th[t].exp].msgs,
                               disk[th[t].chat]).kind = "none"
    /\ downloads[th[t].dl].status = "completed"

(***************************************************************************)
(* Claims on the presence rules                                            *)
(***************************************************************************)
\* name is <id>.<ext> or <id>_<n>.<ext>
CanonicalIdName(m, name) ==
  LET st == RSplitStem(name)
      id == IntToStr(m.id)
  IN \/ st = id
     \/ /\ Len(st) > Len(id) + 1
        /\ SubSeq(st, 1, Len(id) + 1) = id \o <<"_">>
        /\ IsIntLiteral(SubSeq(st, Len(id) + 2, Len(st)))

\* the file of record m is present in the destination, in the claim's words
FilePresent(m, files) ==
  \E f \in files :
    CanonicalIdName(m, f) \/ EndsWith(f, m.file) \/ f = m.file

\* the maximum timestamp over the file-bearing records whose file is
\* present; 0 for None
MaxPresentTimestamp(messages, files) ==
  LET I == {i \in 1..Len(messages) :
              HasFile(messages[i]) /\ FilePresent(messages[i], files)}
  IN IF I = {} THEN 0
     ELSE messages[CHOOSE i \in I :
                     \A j \in I : messages[j].date <= messages[i].date].date

C27_FilterAndMaxSamePresence ==
  pass1.done =>
    \A i \in 1..Len(pm) :
      HasFile(pm[i]) =>
        (~InSeq(pm[i], FilteredMessages(pm, pd))
           <=> GetMaxDownloadedTimestamp(<<pm[i]>>, pd) # 0)

\* thread t is inside download_from_export with a DownloadRun of its own
InDownloadRun(t) ==
  th[t].pc \in {"dl_poll", "dl_finish", "dl_print", "dl_return"}

\* C28: no two download runs that are executing at the same time have the
\* same destination directory (sources with different folders: no two are
\* on the same source).
C28_NoTwoRunsOnOneDestination ==
  \A t, u \in Threads :
    (t # u /\ InDownloadRun(t) /\ InDownloadRun(u)) =>
      th[t].chat # th[u].chat

\* the batch covers the rows of job type k[1]
CoveredByBatch(k) ==
  (IF k[1] = "sync" THEN batch.sync_ids ELSE batch.dl_ids) # {}

\* C29: a failed export or download of one source does not end the batch:
\* the batch loop is left only when every source of the tick has had its
\* sync and its download job called and returned, and the step that leaves
\* it gives every enabled row of the covered job types its next_run_time.
C29_FailureDoesNotAbortBatch ==
  [][(th["cron"].pc # "idle" /\ th'["cron"].pc = "idle") =>
       /\ batch.todo = {}
       /\ \A c \in batch.sync_ids : InSeq(<<"sync", c>>, batch.done)
       /\ \A c \in batch.dl_ids : InSeq(<<"download", c>>, batch.done)
       /\ \A k \in JobTypes \X Chats :
            (schedules'[k].exists /\ schedules'[k].is_enabled
               /\ CoveredByBatch(k)) => schedules'[k].has_next]_vars

\* C29 witness: the first job of the batch was an export that failed, the
\* jobs of the other source were run after it, and the batch is about to
\* recompute the next run times
C29_Witness ==
  /\ th["cron"].pc = "batch_next"
  /\ batch.todo = {}
  /\ Len(batch.done) >= 2
  /\ \E x \in batch.failed :
       /\ batch.done[1] = <<"sync", exports[x].chat>>
       /\ \E i \in 2..Len(batch.done) : batch.done[i][2] # exports[x].chat

\* thread t returns from run_sync_job / run_download_job in this step
\* having created a JobLog
JobReturns(t) ==
  /\ Active(th[t]) /\ th[t].log # 0
  /\ ~(Active(th'[t]) /\ th'[t].log = th[t].log)

\* C30: every JobLog created by run_sync_job or run_download_job is
\* 'completed' or 'failed' when the job function returns, whether the
\* export returned None, the download returned False or they succeeded.
C30_JobLogFinalAtReturn ==
  [][\A t \in SchedThreads :
       JobReturns(t) =>
         job_logs'[th[t].log].status \in {"completed", "failed"}]_vars

\* C30 witness: a download job whose download returned False has returned
\* and its JobLog is failed
C30_Witness ==
  \E i \in 1..Len(job_logs) :
    /\ job_logs[i].job_type = "download"
    /\ job_logs[i].status = "failed"
    /\ \A t \in Threads : th[t].log # i
    /\ \E d \in 1..Len(downloads) : downloads[d].status = "failed"

C32_ExportRunLifecycle ==
  [][/\ Len(exports') > Len(exports) =>
          /\ exports'[Len(exports')].status = "pending"
          /\ th'["cli"].proc = "none"
     /\ (th["cli"].proc = "none" /\ th'["cli"].proc = "running") =>
          /\ exports[th["cli"].exp].status = "pending"
          /\ exports'[th["cli"].exp].status = "running"
     /\ (th["cli"].pc = "exp_run" /\ th'["cli"].pc = "exp_returned") =>
          LET e  == th["cli"].exp
              rc == th'["cli"].exit_code
              msgs == ToolExport(exports[e].start, exports[e].end)
          IN /\ exports[e].status = "running"
             /\ exports'[e].status = "completed" <=> rc = 0
             /\ exports'[e].status \in {"completed", "failed"}
             /\ rc = 0 => th'["cli"].exp = e
             /\ rc # 0 => th'["cli"].exp = 0
             /\ (rc = 0 /\ th'["cli"].judged = "parsed") =>
                  /\ exports'[e].message_count = Len(msgs)
                  /\ exports'[e].media_count =
                       Cardinality({i \in 1..Len(msgs) : msgs[i].file # <<>>})
             /\ (rc = 0 /\ th'["cli"].judged = "unparsable") =>
                  /\ exports'[e].message_count = 0
                  /\ exports'[e].media_count = 0]_vars

\* C32 witness: the tool returned 0 for a window that holds messages and
\* left a file that cannot be parsed: the ExportRun is completed with
\* counts (0, 0) and is returned
C32_Witness ==
  /\ th["cli"].pc = "exp_returned"
  /\ th["cli"].judged = "unparsable" /\ th["cli"].exit_code = 0
  /\ th["cli"].exp # 0
  /\ exports[th["cli"].exp].status = "completed"
  /\ exports[th["cli"].exp].message_count = 0
  /\ ToolExport(exports[th["cli"].exp].start, exports[th["cli"].exp].end) # <<>>

\* C33 (as claimed): once an ExportRun or a DownloadRun is completed or
\* failed, no later step changes its status.
C33_FinalStatusNeverChanges ==
  [][/\ \A i \in 1..Len(exports) :
          Finalized(exports[i].status) =>
            exports'[i].status = exports[i].status
     /\ \A i \in 1..Len(downloads) :
          Finalized(downloads[i].status) =>
            downloads'[i].status = downloads[i].status]_vars

\* C34 (as claimed): whenever the checkpoint of a source has the value T,
\* every message with a file that one of the source's completed exports
\* lists with a date <= T has its file in the destination.
C34_CheckpointCoversOnlyDownloaded ==
  \A c \in Chats :
    chat[c].last_ts # 0 =>
      \A e \in 1..Len(exports) :
        (exports[e].chat = c /\ exports[e].status = "completed") =>
          \A i \in 1..Len(exports[e].msgs) :
            LET m == exports[e].msgs[i]
            IN (HasFile(m) /\ m.date <= chat[c].last_ts) =>
                 FilePresent(m, disk[c])

\* C35 (as claimed): the checkpoint is changed only by download runs that
\* end completed; so, with no run in progress, a source whose checkpoint
\* is set (it starts unset) has a completed DownloadRun.
C35_CheckpointOnlyFromCompletedRuns ==
  (\A t \in Threads : th[t].pc = "idle") =>
    \A c \in Chats :
      chat[c].last_ts # 0 =>
        \E d \in 1..Len(downloads) :
          /\ exports[downloads[d].export].chat = c
          /\ downloads[d].status = "completed"

\* a job for key k is executing: some invocation is past the guard
Executing(k) ==
  \E t \in SchedThreads : Active(th[t]) /\ JobKey(t) = k

\* C36: the in-flight set holds a key exactly while a job for that key is
\* executing: every return of run_sync_job / run_download_job removes its
\* key, and an invocation that reaches the guard while no job for its key
\* is executing is not skipped.
C36_KeyHeldExactlyWhileExecuting ==
  [][/\ \A k \in JobTypes \X Chats :
          (k \in running_jobs') <=>
            (\E t \in SchedThreads : Active(th'[t]) /\ JobKey(t)' = k)
     /\ \A t \in SchedThreads :
          /\ (Active(th[t]) /\ ~Active(th'[t])) =>
               JobKey(t) \notin running_jobs'
          /\ (th[t].pc = "guard" /\ th'[t] # th[t]
                /\ ~Executing(JobKey(t))) =>
               /\ th'[t].pc = "begin"
               /\ JobKey(t) \in running_jobs']_vars

\* C36 witness: a job is executing for a key whose earlier job has
\* returned
C36_Witness ==
  \E t \in SchedThreads :
    /\ Active(th[t]) /\ th[t].log # 0
    /\ JobKey(t) \in running_jobs
    /\ \E i \in 1..Len(job_logs) :
         /\ i # th[t].log
         /\ job_logs[i].chat = th[t].chat
         /\ job_logs[i].job_type = th[t].job
         /\ Finalized(job_logs[i].status)

\* C37: every step in which a download job of the scheduler hands an
\* export to download_from_export (a DownloadRun is created) does so with
\* an ExportRun that is completed, also while a sync job of the same
\* source is running.
C37_DownloadJobGetsCompletedExport ==
  [][\A t \in SchedThreads :
       (th[t].job = "download" /\ th[t].pc = "begin"
          /\ Len(downloads') > Len(downloads)) =>
         /\ downloads'[Len(downloads')].export = th'[t].exp
         /\ exports[th'[t].exp].status = "completed"]_vars

\* C37 witness: the batch's download job of source 1 has returned without
\* a DownloadRun while a manual sync of source 1, against which the
\* batch's own sync was skipped, has the source's only export running
C37_Witness ==
  /\ InSeq(<<"download", 1>>, batch.done)
  /\ downloads = <<>>
  /\ Len(exports) = 1 /\ exports[1].status = "running"
  /\ \E u \in ManualThreads :
       /\ th[u].pc = "export_run" /\ th[u].chat = 1 /\ th[u].exp = 1
       /\ th[u].overlapped

\* the ExportRuns with media that the running batch's sync of source c
\* completed
SyncedInTick(c) ==
  {i \in batch.synced : exports[i].chat = c /\ exports[i].media_count > 0}

\* C38: when the batch's download job of a source whose sync of the same
\* tick completed an export with media runs its checks, the export it
\* takes is that export, whatever manual syncs of the source do meanwhile.
C38_DownloadJobTakesTickExport ==
  [][\A c \in Chats :
       (/\ th["cron"].pc = "begin" /\ th["cron"].job = "download"
        /\ th["cron"].chat = c
        /\ th'["cron"] # th["cron"]
        /\ chat[c].download_enabled
        /\ SyncedInTick(c) # {}) =>
         LastExportOf(c) \in SyncedInTick(c)]_vars

\* the canonical names _rename_files_by_timestamp can give a file of
\* message `id` with extension `ext`: <id><ext>, <id>_1<ext>, ...
CanonicalTargets(id, ext, files) ==
  {IntToStr(id) \o ext} \cup
  {IntToStr(id) \o <<"_">> \o IntToStr(n) \o ext :
     n \in 1..Cardinality(files)}

\* C39: a rename pass neither overwrites nor deletes a file: the
\* destination holds as many files after it as before, every name that
\* appears is <id><ext> or <id>_<n><ext> of a manifest record and was free
\* before the pass or freed by it, and a file that matches no manifest
\* record keeps its name.
C39_RenameKeepsEveryFile ==
  [][LET fileToId == BuildFileToId(pm, <<>>)
     IN /\ Cardinality(pd') = Cardinality(pd)
        /\ \A f \in pd : MatchedId(f, fileToId) = 0 => f \in pd'
        /\ \A f \in pd' \ pd :
             \E i \in 1..Len(fileToId), g \in pd \ pd' :
               f \in CanonicalTargets(fileToId[i][2], PathSuffix(g), pd)]_vars

\* C39 witness: a pass met a taken target name and used <id>_1<ext>, and
\* left alone a file that matches no record
C39_Witness ==
  /\ pass1.done /\ ~pass2.done
  /\ Cardinality(pd) = Cardinality(pass1.dest)
  /\ \E f \in pass1.dest :
       f \in pd /\ MatchedId(f, BuildFileToId(pm, <<>>)) = 0
  /\ \E i \in 1..Len(pm) :
       /\ HasFile(pm[i])
       /\ IntToStr(pm[i].id) \o PathSuffix(pm[i].file) \in pass1.dest
       /\ LET n1 == IntToStr(pm[i].id) \o <<"_">> \o IntToStr(1)
                      \o PathSuffix(pm[i].file)
          IN n1 \in pd /\ n1 \notin pass1.dest

\* C40 (as claimed): a record whose file an earlier run left under the
\* name the tool gave it is not in the manifest the next run passes to the
\* tool: the pre-download rename makes the filter count it as downloaded.
C40_LeftoverRecordNotPassedToTool ==
  pass1.done =>
    \A i \in 1..Len(pm) :
      ToolName(pm[i]) \in pass1.dest => ~InSeq(pm[i], pass1.res.msgs)

====
